---- MODULE Spec2Model ----
(***************************************************************************)
(* Verification model of locasploit:                                       *)
(*   - locasploit.update.vulnerabilities (the corpus-refresh chain and the *)
(*     scheduler it registers its stages with),                            *)
(*   - analysis.iot (version accuracy, alias expansion, staging, check,    *)
(*     and run at the level of the scratch store),                         *)
(*   - packages.dpkg.installed (check).                                    *)
(* Strings that the code inspects character by character (versions) are    *)
(* sequences of one-character strings.                                     *)
(***************************************************************************)
EXTENDS Integers, Sequences, FiniteSets, TLC

VARIABLES
    \* ---- locasploit.update.vulnerabilities: Module.run / Thread ----
    chain,        \* number of Thread objects constructed so far by Module.run
    background,   \* Thread.background of the current Thread
    terminate,    \* Thread.terminate of the current Thread
    pc,           \* position of the current Thread in Thread.run
    stage,        \* which stage of the chain Thread.run is at (1..3)
    job,          \* local `job` of Thread.run
    lucid,        \* local `lucid` of Thread.run
    lue,          \* local `lue` of Thread.run
    units,        \* units[c][s]: the unit of work of stage s of chain c
    chainBg,      \* chainBg[c]: the BACKGROUND setting chain c ran with
    jobs,         \* the scheduler's jobs, indexed by job id
    ret,          \* what the last call of Module.run returned, or where it stands
    \* ---- analysis.iot: get_accurate_version ----
    vver,         \* version handed to get_accurate_version
    vacc,         \* accuracy handed to get_accurate_version
    vepoch,       \* use_epoch handed to get_accurate_version
    vout,         \* value returned
    vout2,        \* value returned when the result is handed in again
    vpc,          \* "in" before the call, "out" after it, "again" after the second
    \* ---- analysis.iot: get_alias_packages ----
    apackages,    \* argument `packages`
    aknown,       \* argument `known`
    aout,         \* returned pair <<alias_matches, result>>
    apc,
    \* ---- analysis.iot: run, steps 4 (end) and 5 for one filesystem ----
    accuracy,     \* parameter ACCURACY
    use_epoch,    \* positive(EPOCH)
    use_aliases,  \* positive(ALIASES)
    package_aliases, \* alias groups read from package_aliases.csv
    tmp_packages, \* observations gathered from the package scanners
    tb_alias_packages, \* tb[tag+'_alias_packages']
    data_packages,\* data['packages']
    db_tmp,       \* rows staged by db['vuln'].add_tmp
    correlate,    \* arguments of the last db['vuln'].get_cves_for_apps call
    rpc,          \* position in run
    \* ---- check operations ----
    cmod,         \* module whose check ran
    cin,          \* the parameters and environment the check saw
    cres,         \* Confidence returned
    cdiag,        \* diagnostics emitted, in order
    cpc,
    \* ---- analysis.iot: run, at the level of the scratch store ----
    tb,           \* the scratch-store entries of the TAG the runs write under
    tb_alone,     \* the entries the run under way would leave in an empty store
    runs,         \* number of calls of run so far
    method,       \* parameter METHOD
    aliases,      \* positive(ALIASES)
    found,        \* local `found`: the filesystems to analyse
    fscount,      \* local `fscount`
    kernels,      \* local `kernels`
    sysinfo,      \* whether oses+users+pusers+crons+startups is non-empty
    pms,          \* local `pms`
    scanned,      \* local `tmp_packages` of the scanner loop
    scanner,      \* index into packathors of the scanner the loop is at
    last_scan,    \* what the scanner of the last pass of the loop did
    exploits,     \* local `exploits`
    spc           \* position in run

chainVars == <<chain, background, terminate, pc, stage, job, lucid, lue,
               units, chainBg, jobs, ret>>
verVars   == <<vver, vacc, vepoch, vout, vout2, vpc>>
aliasVars == <<apackages, aknown, aout, apc>>
runVars   == <<accuracy, use_epoch, use_aliases, package_aliases, tmp_packages,
               tb_alias_packages, data_packages, db_tmp, correlate, rpc>>
checkVars == <<cmod, cin, cres, cdiag, cpc>>
scratchVars == <<tb, tb_alone, runs, method, aliases, found, fscount, kernels,
                 sysinfo, pms, scanned, scanner, last_scan, exploits, spc>>
vars      == <<chainVars, verVars, aliasVars, runVars, checkVars, scratchVars>>

\* Python's None
Null == "None"

\* a key that is not in the scratch store
Absent == <<"absent">>

(***************************************************************************)
(* Bounds                                                                  *)
(***************************************************************************)
\* number of times Module.run of locasploit.update.vulnerabilities is called
MaxChains == 2
\* length of the enumerated version strings
MaxVerLen == 5
\* number of calls of run of analysis.iot under one TAG
MaxRuns == 2
\* number of observations in a batch handed to get_alias_packages
MaxBatch == 2
\* number of alias groups handed to get_alias_packages
MaxGroups == 2

(***************************************************************************)
(* Generic helpers                                                         *)
(***************************************************************************)
\* positive(): the value enables the option
Positive(v) ==
    v \in {"yes"}

\* negative(): the value disables the option
Negative(v) ==
    v \in {"no"}

\* sequences over S of length at most n
SeqsUpTo(S, n) ==
    UNION {[1..k -> S] : k \in 0..n}

\* the set of elements of a sequence
Range(s) ==
    {s[i] : i \in DOMAIN s}

\* the parts of the state the update chain does not touch
notChain == <<verVars, aliasVars, runVars, checkVars, scratchVars>>

(***************************************************************************)
(* locasploit.update.vulnerabilities                                       *)
(***************************************************************************)
\* the stages of the chain, in the order Thread.run launches them
StageNames == <<"locasploit.update.cve", "locasploit.update.exploit", "locasploit.cleanup">>

Stages == 1..3

NoUnits == [s \in Stages |-> "none"]

\* Job states of the scheduler
Terminal == {"Completed", "Failed", "TimedOut"}

\* Scheduler.add: the jobs after registering `handle`; a null handle registers nothing
SchedulerAdd(name, handle, waitfor) ==
    IF handle = Null
    THEN jobs
    ELSE Append(jobs, [name    |-> name,
                       handle  |-> handle,
                       waitFor |-> IF waitfor = Null THEN {} ELSE Range(waitfor),
                       status  |-> "Submitted"])

\* Scheduler.add: the id it returns for a non-null handle
SchedulerNewId ==
    Len(jobs) + 1

\* a sub-module's run: with BACKGROUND enabled it may detach a unit and return its
\* handle, or complete synchronously and return null; without, it is synchronous
SubModuleDetaches(bg) ==
    IF bg THEN {TRUE, FALSE} ELSE {FALSE}

\* the handle Module.run returns for the Thread it constructed as number c
ThreadHandle(c) ==
    <<"Thread", c>>

\* Module.run returning null at once, without start() and join()
RunOutcomeNoJoin(bg) ==
    IF bg THEN ThreadHandle(chain + 1) ELSE Null

\* Module.run, after constructing t: with BACKGROUND `return t`; without, the
\* caller is held in t.start(); t.join() and null is returned after it
RunOutcome(bg) ==
    IF bg THEN ThreadHandle(chain + 1) ELSE "joining"

\* Module.run: constructs the Thread; without BACKGROUND starts it at once
\* (and joins it), with BACKGROUND returns it unstarted
ModuleRun(bg) ==
    /\ pc \in {"none", "done", "fault"}
    /\ ret # "joining"
    /\ chain < MaxChains
    /\ ret' = RunOutcome(bg)
    /\ chain' = chain + 1
    /\ background' = bg
    /\ terminate' = FALSE
    /\ pc' = IF bg THEN "created" ELSE "started"
    /\ stage' = 1
    /\ job' = Null
    /\ lucid' = Null
    /\ lue' = Null
    /\ units' = Append(units, NoUnits)
    /\ chainBg' = Append(chainBg, bg)
    /\ UNCHANGED jobs
    /\ UNCHANGED notChain

\* Module.run without BACKGROUND: t.join() returns once Thread.run has ended
\* (by return or by an uncaught exception), then `return None`
ModuleReturn ==
    /\ ret = "joining"
    /\ pc \in {"done", "fault"}
    /\ ret' = Null
    /\ UNCHANGED <<chain, background, terminate, pc, stage, job, lucid, lue,
                   units, chainBg, jobs>>
    /\ UNCHANGED notChain

\* the holder of the returned handle starts the Thread
HandleStart ==
    /\ pc = "created"
    /\ pc' = "started"
    /\ UNCHANGED <<chain, background, terminate, stage, job, lucid, lue,
                   units, chainBg, jobs, ret>>
    /\ UNCHANGED notChain

\* Thread.stop
Stop ==
    /\ pc \notin {"none"}
    /\ ~terminate
    /\ terminate' = TRUE
    /\ UNCHANGED <<chain, background, pc, stage, job, lucid, lue,
                   units, chainBg, jobs, ret>>
    /\ UNCHANGED notChain

\* Thread.run, entry: the terminate poll (the choice of the YEARS parameter of
\* locasploit.update.cve that follows it changes nothing the chain reads)
ThreadBegin ==
    /\ pc = "started"
    /\ IF terminate
       THEN pc' = "done"
       ELSE pc' = "run"
    /\ UNCHANGED <<chain, background, terminate, stage, job, lucid, lue,
                   units, chainBg, jobs, ret>>
    /\ UNCHANGED notChain

\* Thread.run: job = m.run() of the current stage; the sub-module starts its unit
StageRun ==
    /\ pc = "run"
    /\ units' = [units EXCEPT ![chain][stage] = "running"]
    /\ \E detached \in SubModuleDetaches(background) :
           IF detached
           THEN /\ job' = <<chain, stage>>
                /\ pc' = "add"
           ELSE /\ job' = job
                /\ pc' = "join"
    /\ UNCHANGED <<chain, background, terminate, stage, lucid, lue,
                   chainBg, jobs, ret>>
    /\ UNCHANGED notChain

\* a synchronous m.run() returns null once its unit has finished
StageJoin ==
    /\ pc = "join"
    /\ units[chain][stage] = "finished"
    /\ job' = Null
    /\ pc' = "add"
    /\ UNCHANGED <<chain, background, terminate, stage, lucid, lue,
                   units, chainBg, jobs, ret>>
    /\ UNCHANGED notChain

\* a unit of work runs to its end
UnitFinish(c, s) ==
    /\ units[c][s] = "running"
    /\ units' = [units EXCEPT ![c][s] = "finished"]
    /\ UNCHANGED <<chain, background, terminate, pc, stage, job, lucid, lue,
                   chainBg, jobs, ret>>
    /\ UNCHANGED notChain

\* waitfor of the exploit job with its dependency dropped
ExploitWaitForDropped ==
    Null

\* Thread.run: waitfor handed to scheduler.add for the exploit job
ExploitWaitFor ==
    lucid

\* Python's list + list; a TypeError when either operand is None
ListAdd(a, b) ==
    IF a = Null \/ b = Null THEN "TypeError" ELSE a \o b

\* waitfor of the cleanup job naming the exploit job only
CleanupWaitForExploitOnly ==
    IF lue = Null THEN "TypeError" ELSE lue

\* Thread.run: waitfor handed to scheduler.add for the cleanup job
CleanupWaitFor ==
    ListAdd(lucid, lue)

\* Thread.run: lucid = None if job is None else [scheduler.add(name, now, job)]
AddCve ==
    /\ pc = "add" /\ stage = 1
    /\ lucid' = IF job = Null THEN Null ELSE <<SchedulerNewId>>
    /\ jobs' = IF job = Null THEN jobs ELSE SchedulerAdd(StageNames[1], job, Null)
    /\ stage' = 2
    /\ pc' = "run"
    /\ UNCHANGED <<chain, background, terminate, job, lue, units, chainBg, ret>>
    /\ UNCHANGED notChain

\* Thread.run: lue = None if job is None else [scheduler.add(..., waitfor=lucid)]
AddExploit ==
    /\ pc = "add" /\ stage = 2
    /\ lue' = IF job = Null THEN Null ELSE <<SchedulerNewId>>
    /\ jobs' = IF job = Null THEN jobs ELSE SchedulerAdd(StageNames[2], job, ExploitWaitFor)
    /\ stage' = 3
    /\ pc' = "run"
    /\ UNCHANGED <<chain, background, terminate, job, lucid, units, chainBg, ret>>
    /\ UNCHANGED notChain

\* Thread.run: scheduler.add(name, now, job, timeout=None, waitfor=lucid+lue)
AddCleanup ==
    /\ pc = "add" /\ stage = 3
    /\ IF CleanupWaitFor = "TypeError"
       THEN /\ pc' = "fault"
            /\ jobs' = jobs
       ELSE /\ pc' = "done"
            /\ jobs' = SchedulerAdd(StageNames[3], job, CleanupWaitFor)
    /\ UNCHANGED <<chain, background, terminate, stage, job, lucid, lue,
                   units, chainBg, ret>>
    /\ UNCHANGED notChain

\* the unit behind a job handle
UnitOf(h) ==
    units[h[1]][h[2]]

\* the scheduler's bookkeeping: a job is reported Completed once its unit has
\* finished and every job it waits for is terminal
SchedulerStep(j) ==
    /\ j \in DOMAIN jobs
    /\ jobs[j].status = "Submitted"
    /\ \A w \in jobs[j].waitFor : jobs[w].status \in Terminal
    /\ UnitOf(jobs[j].handle) = "finished"
    /\ jobs' = [jobs EXCEPT ![j].status = "Completed"]
    /\ UNCHANGED <<chain, background, terminate, pc, stage, job, lucid, lue,
                   units, chainBg, ret>>
    /\ UNCHANGED notChain

ChainInit ==
    /\ chain = 0
    /\ background = FALSE
    /\ terminate = FALSE
    /\ pc = "none"
    /\ stage = 1
    /\ job = Null
    /\ lucid = Null
    /\ lue = Null
    /\ units = <<>>
    /\ chainBg = <<>>
    /\ jobs = <<>>
    /\ ret = "uncalled"

ChainNext ==
    \/ \E bg \in BOOLEAN : ModuleRun(bg)
    \/ ModuleReturn
    \/ HandleStart
    \/ Stop
    \/ ThreadBegin
    \/ StageRun
    \/ StageJoin
    \/ \E c \in 1..MaxChains, s \in Stages : c <= chain /\ UnitFinish(c, s)
    \/ AddCve
    \/ AddExploit
    \/ AddCleanup
    \/ \E j \in 1..(3 * MaxChains) : SchedulerStep(j)

(***************************************************************************)
(* Idle values of the parts a specification does not exercise              *)
(***************************************************************************)
VerIdle ==
    /\ vver = <<>> /\ vacc = "none" /\ vepoch = FALSE /\ vout = <<>> /\ vout2 = <<>>
    /\ vpc = "idle"

AliasIdle ==
    /\ apackages = <<>> /\ aknown = <<>> /\ aout = <<<<>>, <<>>>> /\ apc = "idle"

RunIdle ==
    /\ accuracy = "none" /\ use_epoch = FALSE /\ use_aliases = FALSE
    /\ package_aliases = <<>> /\ tmp_packages = <<>> /\ tb_alias_packages = <<>>
    /\ data_packages = <<>> /\ db_tmp = <<>> /\ correlate = Null /\ rpc = "idle"

CheckIdle ==
    /\ cmod = Null /\ cin = Null /\ cres = Null /\ cdiag = <<>> /\ cpc = "idle"

ChainIdle ==
    ChainInit

\* no key of the TAG in the scratch store
EmptyStore ==
    [accuracy |-> Absent, general |-> Absent, filesystems |-> Absent,
     fake_packages |-> Absent, alias_packages |-> Absent, exploits |-> Absent,
     tmp_packages |-> Absent]

ScratchIdle ==
    /\ tb = EmptyStore /\ tb_alone = EmptyStore /\ runs = 0
    /\ method = Null /\ aliases = FALSE /\ found = <<>> /\ fscount = -1
    /\ kernels = <<>> /\ sysinfo = FALSE /\ pms = <<>> /\ scanned = <<>>
    /\ scanner = 1 /\ last_scan = Null /\ exploits = <<>> /\ spc = "idle"

(***************************************************************************)
(* Specification of the update chain                                       *)
(***************************************************************************)
InitChain ==
    ChainInit /\ VerIdle /\ AliasIdle /\ RunIdle /\ CheckIdle /\ ScratchIdle

NextChain ==
    ChainNext

SpecChain ==
    InitChain /\ [][NextChain]_vars

(***************************************************************************)
(* Claims about the update chain                                           *)
(***************************************************************************)
\* stage s2 of chain c has begun only after every earlier stage has finished
StagesOrdered(c) ==
    \A s1, s2 \in Stages :
        (s1 < s2 /\ units[c][s2] # "none") => units[c][s1] = "finished"

\* the registered jobs of chain c whose stage is in S
JobsOf(c, S) ==
    {j \in DOMAIN jobs : jobs[j].handle[1] = c /\ jobs[j].handle[2] \in S}

\* C1 (as stated): in every chain, with BACKGROUND enabled or not, a later stage
\* never begins before the earlier stages have finished.
C1_LaterStageNeverBeginsEarly ==
    \A c \in 1..chain : StagesOrdered(c)

\* C1 (amended): without BACKGROUND a later stage never begins before the earlier
\* stages have finished; with BACKGROUND the stages are started without waiting and
\* only the reporting is ordered: a job of a later stage is never reported Completed
\* while the registered job of an earlier stage of the same chain is not terminal.
C1_InlineOrderedBackgroundCompletionOrdered ==
    \A c \in 1..chain :
        /\ ~chainBg[c] => StagesOrdered(c)
        /\ \A j, k \in JobsOf(c, Stages) :
               (jobs[k].handle[2] < jobs[j].handle[2] /\ jobs[j].status = "Completed")
                   => jobs[k].status \in Terminal

\* C1 witness: a background chain whose dependent job was reported Completed, and
\* an inline chain that reached its last stage.
C1_Witness ==
    /\ \E j \in DOMAIN jobs : jobs[j].status = "Completed" /\ jobs[j].waitFor # {}
    /\ \E c \in 1..chain : ~chainBg[c] /\ units[c][3] # "none"

\* C2: every registered job waits only for jobs registered before it in the same
\* chain: the CVE job for none, the exploit job for exactly the chain's CVE job,
\* the cleanup job for exactly the chain's CVE and exploit jobs (so no cycle).
C2_WaitForOnlyEarlierJobsOfChain ==
    \A j \in DOMAIN jobs :
        LET c == jobs[j].handle[1]
            s == jobs[j].handle[2]
        IN  /\ jobs[j].waitFor \subseteq 1..(j - 1)
            /\ jobs[j].name = StageNames[s]
            /\ jobs[j].waitFor = JobsOf(c, 1..(s - 1))
            /\ s = 3 => Cardinality(jobs[j].waitFor) = 2

\* C2 witness: the cleanup job of a second chain, waiting for that chain's two jobs.
C2_Witness ==
    \E j \in DOMAIN jobs :
        /\ jobs[j].name = StageNames[3]
        /\ jobs[j].handle[1] = 2
        /\ Cardinality(jobs[j].waitFor) = 2
        /\ \E k \in DOMAIN jobs : jobs[k].handle[1] = 1

\* C3: whatever handles the three stage runs return, the registration sequence
\* ends without a fault.
C3_RegistrationNeverFaults ==
    pc # "fault"

\* C14: Module.run returns null exactly when BACKGROUND is not enabled, and then
\* only after the Thread has ended and no unit of its chain is still running;
\* with BACKGROUND it returns the handle of the Thread it constructed, at once.
C14_RunReturnsNullExactlyWhenInline ==
    /\ ret = Null => /\ ~background
                     /\ pc \in {"done", "fault"}
                     /\ \A s \in Stages : units[chain][s] # "running"
    /\ (chain > 0 /\ background) => ret = ThreadHandle(chain)
    /\ (chain > 0 /\ ~background) => ret \in {"joining", Null}

\* C14 witness: a call with BACKGROUND returned a handle, and a later call without
\* it returned null after its three stages had run to their end.
C14_Witness ==
    /\ chain > 1
    /\ chainBg[1] /\ ~chainBg[chain]
    /\ ret = Null
    /\ \A s \in Stages : units[chain][s] = "finished"

\* C15: once terminate is set the Thread makes no further progress: it starts no
\* further stage and registers no further job.
C15_NoProgressOnceTerminateSet ==
    [][(terminate /\ chain' = chain) =>
           /\ \A s \in Stages :
                  units[chain][s] = "none" => units'[chain][s] = "none"
           /\ Len(jobs') = Len(jobs)]_vars

(***************************************************************************)
(* analysis.iot: get_accurate_version                                      *)
(***************************************************************************)
\* the parts of the state get_accurate_version does not touch
notVer == <<chainVars, aliasVars, runVars, checkVars, scratchVars>>

Digits == {"0", "1", "2", "3", "4", "5", "6", "7", "8", "9"}

\* the characters the enumerated versions are built from
Chars == {"1", "a", ".", "-", ":"}

Accuracies == {"none", "major", "minor", "build", "full"}

\* the version of the module's description, '0.9.8j-r13.0.4', and two versions of
\* the Debian form epoch:upstream-revision
ExampleVersions ==
    { <<"0", ".", "9", ".", "8", "j", "-", "r", "1", "3", ".", "0", ".", "4">>,
      <<"2", ":", "1", ".", "0">>,
      <<"1", ".", "2", ".", "3", "-", "r", "1">> }

\* str.isdigit: non-empty and digits only
IsDigit(s) ==
    s # <<>> /\ \A i \in DOMAIN s : s[i] \in Digits

\* str.replace(old, new) for single characters: every occurrence
Replace(s, old, new) ==
    [i \in DOMAIN s |-> IF s[i] = old THEN new ELSE s[i]]

RECURSIVE PartitionFrom(_, _, _)
\* str.partition scanning from position i: <<head, sep, tail>> at the first sep
PartitionFrom(s, sep, i) ==
    IF i > Len(s) THEN <<s, <<>>, <<>>>>
    ELSE IF s[i] = sep THEN <<SubSeq(s, 1, i - 1), <<sep>>, SubSeq(s, i + 1, Len(s))>>
    ELSE PartitionFrom(s, sep, i + 1)

\* str.partition(sep)
Partition(s, sep) ==
    PartitionFrom(s, sep, 1)

\* '.'.join([a, b])
Join2(a, b) ==
    a \o <<".">> \o b

\* '.'.join([a, b, c])
Join3(a, b, c) ==
    a \o <<".">> \o b \o <<".">> \o c

\* get_accurate_version, "deal with epoch"
EpochFold(version, epoch) ==
    IF epoch
    THEN Replace(version, ":", ".")
    ELSE IF ":" \in Range(version) THEN Partition(version, ":")[3] ELSE version

\* get_accurate_version with the hyphen cut of the build component left out
GetAccurateVersionNoBuildCut(acc, version, epoch) ==
    LET v0 == EpochFold(version, epoch)
        majorparts == Partition(v0, ".")
        minorparts == Partition(majorparts[3], ".")
        buildparts == Partition(minorparts[3], ".")
        v1 == IF IsDigit(majorparts[1]) THEN Partition(majorparts[1], "-")[1] ELSE v0
        v2 == IF acc \in {"minor", "build"} /\ minorparts[1] # <<>>
              THEN Join2(majorparts[1], Partition(minorparts[1], "-")[1])
              ELSE v1
        v3 == IF acc = "build" /\ buildparts[1] # <<>>
              THEN Join3(majorparts[1], minorparts[1], buildparts[1])
              ELSE v2
    IN  IF acc = "none" THEN <<>>
        ELSE IF acc \in {"major", "minor", "build"} THEN v3
        ELSE v0

\* get_accurate_version(accuracy, version, use_epoch)
GetAccurateVersion(acc, version, epoch) ==
    LET v0 == EpochFold(version, epoch)
        majorparts == Partition(v0, ".")
        minorparts == Partition(majorparts[3], ".")
        buildparts == Partition(minorparts[3], ".")
        v1 == IF IsDigit(majorparts[1]) THEN Partition(majorparts[1], "-")[1] ELSE v0
        v2 == IF acc \in {"minor", "build"} /\ minorparts[1] # <<>>
              THEN Join2(majorparts[1], Partition(minorparts[1], "-")[1])
              ELSE v1
        v3 == IF acc = "build" /\ buildparts[1] # <<>>
              THEN Join3(majorparts[1], minorparts[1], Partition(buildparts[1], "-")[1])
              ELSE v2
    IN  IF acc = "none" THEN <<>>
        ELSE IF acc \in {"major", "minor", "build"} THEN v3
        ELSE v0

\* one call of get_accurate_version
Truncate ==
    /\ vpc = "in"
    /\ vout' = GetAccurateVersion(vacc, vver, vepoch)
    /\ vpc' = "out"
    /\ UNCHANGED <<vver, vacc, vepoch, vout2>>
    /\ UNCHANGED notVer

\* run: the version a correlation returned (the staged one) is handed to
\* get_accurate_version again, with the same accuracy and epoch setting
Retruncate ==
    /\ vpc = "out"
    /\ vout2' = GetAccurateVersion(vacc, vout, vepoch)
    /\ vpc' = "again"
    /\ UNCHANGED <<vver, vacc, vepoch, vout>>
    /\ UNCHANGED notVer

InitVersion ==
    /\ vver \in SeqsUpTo(Chars, MaxVerLen) \cup ExampleVersions
    /\ vacc \in Accuracies
    /\ vepoch \in BOOLEAN
    /\ vout = <<>>
    /\ vout2 = <<>>
    /\ vpc = "in"
    /\ ChainIdle /\ AliasIdle /\ RunIdle /\ CheckIdle /\ ScratchIdle

NextVersion ==
    \/ Truncate
    \/ Retruncate

SpecVersion ==
    InitVersion /\ [][NextVersion]_vars

(***************************************************************************)
(* Claims about get_accurate_version                                       *)
(***************************************************************************)
\* the positions of character ch in s
Positions(s, ch) ==
    {i \in DOMAIN s : s[i] = ch}

\* the least element of a non-empty set of numbers
Least(S) ==
    CHOOSE x \in S : \A y \in S : x <= y

\* the k-th component of s split at character ch (<<>> when there is none)
Component(s, ch, k) ==
    LET ps == Positions(s, ch)
        cut(n) == IF n = 0 THEN 0
                  ELSE IF Cardinality(ps) < n THEN Len(s) + 1
                  ELSE CHOOSE p \in ps : Cardinality({q \in ps : q < p}) = n - 1
    IN  IF Cardinality(ps) < k - 1 THEN <<>>
        ELSE SubSeq(s, cut(k - 1) + 1, cut(k) - 1)

\* s cut at its first hyphen
CutAtHyphen(s) ==
    IF Positions(s, "-") = {} THEN s ELSE SubSeq(s, 1, Least(Positions(s, "-")) - 1)

\* the version after the epoch handling the call applied
Normalized ==
    EpochFold(vver, vepoch)

MajorComp == Component(Normalized, ".", 1)
MinorComp == Component(Normalized, ".", 2)
BuildComp == Component(Normalized, ".", 3)

\* what C4 states for minor accuracy
MinorLevel ==
    IF MinorComp # <<>> THEN MajorComp \o <<".">> \o CutAtHyphen(MinorComp) ELSE MajorComp

\* what C4 states for build accuracy
BuildLevel ==
    IF BuildComp # <<>>
    THEN MajorComp \o <<".">> \o MinorComp \o <<".">> \o CutAtHyphen(BuildComp)
    ELSE MinorLevel

\* C4: for a version whose major component is purely numeric the result is the major
\* component at major accuracy, major.minor (minor cut at its first hyphen) at minor
\* accuracy when a minor component exists, major.minor.build (build cut at its first
\* hyphen) at build accuracy when a build component exists, and the next lower level
\* otherwise; '0.9.8j-r13.0.4' gives '0', '0.9' and '0.9.8j'.
C4_TruncationOfNumericMajor ==
    (vpc = "out" /\ IsDigit(MajorComp)) =>
        /\ vacc = "major" => vout = MajorComp
        /\ vacc = "minor" => vout = MinorLevel
        /\ vacc = "build" => vout = BuildLevel
        /\ (vver = <<"0", ".", "9", ".", "8", "j", "-", "r", "1", "3", ".", "0", ".", "4">>) =>
               /\ vacc = "major" => vout = <<"0">>
               /\ vacc = "minor" => vout = <<"0", ".", "9">>
               /\ vacc = "build" => vout = <<"0", ".", "9", ".", "8", "j">>

\* C4 witness: the description's example truncated at build accuracy.
C4_Witness ==
    /\ vpc = "out" /\ vacc = "build"
    /\ vver = <<"0", ".", "9", ".", "8", "j", "-", "r", "1", "3", ".", "0", ".", "4">>
    /\ vout = <<"0", ".", "9", ".", "8", "j">>

\* C5: for a version whose major component is not purely numeric, every accuracy
\* other than none returns the full epoch-normalized version.
C5_NonStandardVersionKeptFull ==
    (vpc = "out" /\ ~IsDigit(MajorComp) /\ vacc # "none") => vout = Normalized

\* the epoch handling C6 describes: the colon that ends the epoch prefix becomes a
\* period (useEpoch) or the prefix and the colon are dropped (not useEpoch)
EpochNormalForm(version, epoch) ==
    IF Positions(version, ":") = {} THEN version
    ELSE LET p == Least(Positions(version, ":"))
         IN  IF epoch
             THEN [i \in DOMAIN version |-> IF i = p THEN "." ELSE version[i]]
             ELSE SubSeq(version, p + 1, Len(version))

\* C6: at full accuracy the result is the input with its epoch colon replaced by a
\* period (useEpoch), or with the epoch prefix and its colon dropped (not useEpoch),
\* and the input itself when it has no colon.
C6_FullReturnsEpochNormalForm ==
    (vpc = "out" /\ vacc = "full") => vout = EpochNormalForm(vver, vepoch)

\* C16: get_accurate_version is idempotent: applied to its own result with the
\* same accuracy and epoch setting it returns that result unchanged.
C16_TruncationIdempotent ==
    vpc = "again" => vout2 = vout

(***************************************************************************)
(* analysis.iot: get_alias_packages                                        *)
(***************************************************************************)
\* the parts of the state get_alias_packages does not touch
notAlias == <<chainVars, verVars, runVars, checkVars, scratchVars>>

\* observations (name, variant, version) the batches are built from
ObsSet ==
    { <<"kernel", Null, <<"4", ".", "4">>>>,
      <<"kernel", "x", <<"2", ":", "1", ".", "0", "-", "r">>>>,
      <<"linux_kernel", Null, <<"2", ":", "1", ".", "0", "-", "r">>>>,
      <<"openssl", Null, <<"4", ".", "4">>>> }

\* names the alias groups are built from
AliasNames == {"kernel", "linux_kernel", "linux"}

\* alias groups: every pair of distinct names in either order, and the three
\* names in two orders
GroupSet ==
    {g \in [1..2 -> AliasNames] : g[1] # g[2]}
    \cup { <<"kernel", "linux_kernel", "linux">>, <<"linux", "linux_kernel", "kernel">> }

RECURSIVE Filter(_, _)
\* [x for x in k if x != name]
Filter(k, name) ==
    IF k = <<>> THEN <<>>
    ELSE (IF Head(k) # name THEN <<Head(k)>> ELSE <<>>) \o Filter(Tail(k), name)

\* aliases = [(x, p[1], p[2]) for x in k if x != p[0]]
AliasesOf(k, p) ==
    LET names == Filter(k, p[1])
    IN  [i \in DOMAIN names |-> <<names[i], p[2], p[3]>>]

RECURSIVE ExpandGroupEvery(_, _)
\* the inner loop without its break: every matching observation expands the group
ExpandGroupEvery(k, packages) ==
    IF packages = <<>> THEN <<>>
    ELSE (IF Head(packages)[1] \in Range(k) THEN AliasesOf(k, Head(packages)) ELSE <<>>)
         \o ExpandGroupEvery(k, Tail(packages))

RECURSIVE ExpandGroup(_, _)
\* the inner loop of get_alias_packages: for p in packages: if p[0] in k: ...; break
ExpandGroup(k, packages) ==
    IF packages = <<>> THEN <<>>
    ELSE IF Head(packages)[1] \in Range(k) THEN AliasesOf(k, Head(packages))
    ELSE ExpandGroup(k, Tail(packages))

RECURSIVE ExpandAll(_, _)
\* the outer loop of get_alias_packages: result += aliases, for k in known
ExpandAll(known, packages) ==
    IF known = <<>> THEN <<>>
    ELSE ExpandGroup(Head(known), packages) \o ExpandAll(Tail(known), packages)

\* get_alias_packages(packages, known): <<alias_matches, result>>
GetAliasPackages(packages, known) ==
    LET result == ExpandAll(known, packages)
    IN  << [i \in DOMAIN result |-> result[i][1]], result >>

\* one call of get_alias_packages
ExpandAliases ==
    /\ apc = "in"
    /\ aout' = GetAliasPackages(apackages, aknown)
    /\ apc' = "out"
    /\ UNCHANGED <<apackages, aknown>>
    /\ UNCHANGED notAlias

InitAlias ==
    /\ apackages \in SeqsUpTo(ObsSet, MaxBatch)
    /\ aknown \in SeqsUpTo(GroupSet, MaxGroups)
    /\ aout = <<<<>>, <<>>>>
    /\ apc = "in"
    /\ ChainIdle /\ VerIdle /\ RunIdle /\ CheckIdle /\ ScratchIdle

NextAlias ==
    ExpandAliases

SpecAlias ==
    InitAlias /\ [][NextAlias]_vars

(***************************************************************************)
(* Claims about get_alias_packages                                         *)
(***************************************************************************)
\* the positions in the batch of the observations whose name is in group g
MatchesOf(g) ==
    {i \in DOMAIN apackages : apackages[i][1] \in Range(aknown[g])}

\* the first observation of the batch whose name is in group g
FirstMatch(g) ==
    apackages[Least(MatchesOf(g))]

\* the positions in group g of its names other than the first match's
OtherNames(g) ==
    IF MatchesOf(g) = {} THEN {}
    ELSE {n \in DOMAIN aknown[g] : aknown[g][n] # FirstMatch(g)[1]}

\* the number of observations synthesized for the groups before g
OffsetOf(g) ==
    Cardinality({hn \in (1..(g - 1)) \X (1..3) : hn[2] \in OtherNames(hn[1])})

\* C8: each group is expanded at most once: only the first observation in batch
\* order whose name is in the group synthesizes, one observation per other name of
\* the group with its variant and version copied; the names reported are exactly
\* the synthesized ones; a group without a matching observation synthesizes nothing.
C8_FirstMatchExpandsGroupOnce ==
    apc = "out" =>
        LET matches == aout[1]
            result  == aout[2]
        IN  /\ Len(result) = OffsetOf(Len(aknown) + 1)
            /\ Len(matches) = Len(result)
            /\ \A i \in DOMAIN result : matches[i] = result[i][1]
            /\ \A g \in DOMAIN aknown : \A n \in OtherNames(g) :
                   LET rank == Cardinality({m \in OtherNames(g) : m <= n})
                   IN  result[OffsetOf(g) + rank]
                           = <<aknown[g][n], FirstMatch(g)[2], FirstMatch(g)[3]>>

\* C8 witness: a group matched by two observations of the batch that differ in
\* variant and version, expanded from the first one only.
C8_Witness ==
    /\ apc = "out"
    /\ \E g \in DOMAIN aknown :
           /\ Cardinality(MatchesOf(g)) = 2
           /\ apackages[1] # apackages[2]
           /\ apackages[1][2] # apackages[2][2]
           /\ Len(aout[2]) = Len(aknown[g]) - 1
           /\ \A i \in DOMAIN aout[2] : aout[2][i][2] = apackages[1][2]

(***************************************************************************)
(* analysis.iot: run, from alias expansion to correlation (one filesystem) *)
(***************************************************************************)
\* the parts of the state these steps of run do not touch
notRun == <<chainVars, verVars, aliasVars, checkVars, scratchVars>>

\* values ACCURACY may hold when run is called (check does not gate run)
RunAccuracies == Accuracies \cup {"bogus"}

\* contents of package_aliases.csv the runs are tried with
AliasTables ==
    { <<>>, << <<"kernel", "linux_kernel">> >>,
      << <<"linux", "kernel", "linux_kernel">>, <<"linux_kernel", "kernel">> >> }

\* the scope id tag+':%d' % fscount of the filesystem
Scope == "tag:0"

\* matchByVersion stuck at true
MatchByVersionAlways ==
    TRUE

\* run: the second argument of db['vuln'].get_cves_for_apps
MatchByVersion ==
    accuracy # "none"

\* run: alias expansion, tb[tag+'_alias_packages'] += alias_names,
\* data['packages'] = tmp_packages + alias_packages
RunExpand ==
    /\ rpc = "enumerated"
    /\ LET ap == IF use_aliases THEN GetAliasPackages(tmp_packages, package_aliases)
                 ELSE <<<<>>, <<>>>>
       IN  /\ tb_alias_packages' = tb_alias_packages \o ap[1]
           /\ data_packages' = tmp_packages \o ap[2]
    /\ rpc' = "expanded"
    /\ UNCHANGED <<accuracy, use_epoch, use_aliases, package_aliases, tmp_packages,
                   db_tmp, correlate>>
    /\ UNCHANGED notRun

\* run: packages = [(scope, name, variant, get_accurate_version(...))];
\* db['vuln'].add_tmp(packages) when there are any
RunStage ==
    /\ rpc = "expanded"
    /\ LET packages == [i \in DOMAIN data_packages |->
                           <<Scope, data_packages[i][1], data_packages[i][2],
                             GetAccurateVersion(accuracy, data_packages[i][3], use_epoch)>>]
       IN  db_tmp' = IF Len(packages) > 0 THEN db_tmp \o packages ELSE db_tmp
    /\ rpc' = "staged"
    /\ UNCHANGED <<accuracy, use_epoch, use_aliases, package_aliases, tmp_packages,
                   tb_alias_packages, data_packages, correlate>>
    /\ UNCHANGED notRun

\* run: cves = db['vuln'].get_cves_for_apps(scope, accuracy != 'none')
RunCorrelate ==
    /\ rpc = "staged"
    /\ correlate' = <<Scope, MatchByVersion>>
    /\ rpc' = "correlated"
    /\ UNCHANGED <<accuracy, use_epoch, use_aliases, package_aliases, tmp_packages,
                   tb_alias_packages, data_packages, db_tmp>>
    /\ UNCHANGED notRun

InitRun ==
    /\ accuracy \in RunAccuracies
    /\ use_epoch \in BOOLEAN
    /\ use_aliases \in BOOLEAN
    /\ package_aliases \in AliasTables
    /\ tmp_packages \in SeqsUpTo(ObsSet, MaxBatch)
    /\ tb_alias_packages = <<>>
    /\ data_packages = <<>>
    /\ db_tmp = <<>>
    /\ correlate = Null
    /\ rpc = "enumerated"
    /\ ChainIdle /\ VerIdle /\ AliasIdle /\ CheckIdle /\ ScratchIdle

NextRun ==
    \/ RunExpand
    \/ RunStage
    \/ RunCorrelate

SpecRun ==
    InitRun /\ [][NextRun]_vars

(***************************************************************************)
(* Claims about staging and correlation                                    *)
(***************************************************************************)
\* C7: with accuracy none every observation is staged with an empty version,
\* whatever its version and the epoch setting, and correlation is requested with
\* matchByVersion false; with any other accuracy it is requested with true.
C7_NoneStagesEmptyVersionsNameOnly ==
    /\ (rpc \in {"staged", "correlated"} /\ accuracy = "none") =>
           /\ Len(db_tmp) = Len(data_packages)
           /\ \A i \in DOMAIN db_tmp :
                  /\ db_tmp[i][4] = <<>>
                  /\ db_tmp[i][2] = data_packages[i][1]
    /\ rpc = "correlated" => (correlate[2] = (accuracy # "none"))

\* C7 witness: a batch with a non-empty version staged at accuracy none, and
\* correlated by name only.
C7_Witness ==
    /\ rpc = "correlated" /\ accuracy = "none"
    /\ Len(db_tmp) >= 2
    /\ \E i \in DOMAIN data_packages : data_packages[i][3] # <<>>
    /\ correlate[2] = FALSE

(***************************************************************************)
(* check operations                                                        *)
(***************************************************************************)
\* the parts of the state the check operations do not touch
notCheck == <<chainVars, verVars, aliasVars, runVars, scratchVars>>

\* Confidence: FAILURE < UNLIKELY < PROBABLY < SUCCESS
CHECK_FAILURE == 0
CHECK_UNLIKELY == 1
CHECK_PROBABLY == 2
CHECK_SUCCESS == 3

Confidence == {CHECK_FAILURE, CHECK_UNLIKELY, CHECK_PROBABLY, CHECK_SUCCESS}

\* Python's min of two values
Min2(a, b) ==
    IF a <= b THEN a ELSE b

\* the `silent` a check works with: its argument, or positive(SILENT) when None
SilentOf(arg, param) ==
    IF arg = Null THEN Positive(param) ELSE arg = "True"

\* the sub-module verdict overwriting the aggregate
FoldSubCheckOverwrite(result, sub) ==
    sub

\* analysis.iot check: result = min(result, ibe.check())
FoldSubCheck(result, sub) ==
    Min2(result, sub)

\* a check's log.err / log.warn: appended unless silent
Emit(diag, silent, what) ==
    IF silent THEN diag ELSE Append(diag, what)

\* analysis.iot check: <<Confidence returned, diagnostics emitted>> for input in
IotCheck(in) ==
    LET silent == SilentOf(in.silentArg, in.SILENT)
        r0 == CHECK_PROBABLY
        d0 == <<>>
        \* supported method?
        badMethod == in.METHOD \notin {"local", "image", "ssh"}
        r1 == IF badMethod THEN CHECK_FAILURE ELSE r0
        d1 == IF badMethod THEN Emit(d0, silent, "method") ELSE d0
        \* method == 'image': the binwalk module's check, then EXTRACT
        r2 == IF in.METHOD = "image" THEN FoldSubCheck(r1, in.ibe) ELSE r1
        badExtract == in.METHOD = "image"
                      /\ ~(Positive(in.EXTRACT) \/ Negative(in.EXTRACT))
        \* method == 'ssh': existing connection?
        badSsh == in.METHOD = "ssh" /\ ~in.sshConnection
        \* method == 'local': target is a directory?
        badLocal == in.METHOD = "local" /\ ~in.targetIsDir
        r3 == IF badSsh \/ badLocal THEN CHECK_FAILURE ELSE r2
        d3 == IF badSsh THEN Emit(d1, silent, "ssh")
              ELSE IF badLocal THEN Emit(d1, silent, "local")
              ELSE d1
        \* supported accuracy?
        badAccuracy == in.ACCURACY \notin Accuracies
        r4 == IF badAccuracy THEN CHECK_FAILURE ELSE r3
        d4 == IF badAccuracy THEN Emit(d3, silent, "accuracy") ELSE d3
    IN  IF badExtract
        THEN <<CHECK_FAILURE, Emit(d1, silent, "extract")>>
        ELSE <<r4, d4>>

\* packages.dpkg.installed check
DpkgCheck(in) ==
    LET silent == SilentOf(in.silentArg, in.SILENT)
        r0 == CHECK_SUCCESS
        notLinux == in.systemType # "linux"
        r1 == IF notLinux THEN CHECK_UNLIKELY ELSE r0
        d1 == IF notLinux THEN Emit(<<>>, silent, "system") ELSE <<>>
        unreadable == ~in.canRead
        r2 == IF unreadable THEN CHECK_FAILURE ELSE r1
        d2 == IF unreadable THEN Emit(d1, silent, "status file") ELSE d1
    IN  <<r2, d2>>

\* locasploit.update.vulnerabilities check; `silent` is set again from SILENT
\* after the argument was looked at
UpdateCheck(in) ==
    LET silent == Positive(in.SILENT)
        r0 == CHECK_PROBABLY
        badBackground == ~Positive(in.BACKGROUND) /\ ~Negative(in.BACKGROUND)
        r1 == IF badBackground THEN CHECK_FAILURE ELSE r0
        d1 == IF badBackground THEN Emit(<<>>, silent, "background") ELSE <<>>
        noUrllib == ~in.urllib
        r2 == IF noUrllib THEN CHECK_FAILURE ELSE r1
        d2 == IF noUrllib THEN Emit(d1, silent, "urllib") ELSE d1
    IN  <<r2, d2>>

\* the `silent` argument of a check: None, True or False
SilentArgs == {Null, "True", "False"}

OptionValues == {"yes", "no", "maybe"}

IotInputs ==
    [silentArg : SilentArgs, SILENT : {"yes", "no"},
     METHOD : {"local", "image", "ssh", "ftp"},
     EXTRACT : OptionValues,
     ACCURACY : {"none", "build", "bogus"},
     ibe : Confidence, sshConnection : BOOLEAN, targetIsDir : BOOLEAN]

DpkgInputs ==
    [silentArg : SilentArgs, SILENT : {"yes", "no"},
     systemType : {"linux", "windows"}, canRead : BOOLEAN]

UpdateInputs ==
    [silentArg : SilentArgs, SILENT : {"yes", "no"},
     BACKGROUND : OptionValues, urllib : BOOLEAN]

\* analysis.iot: Module.check
CheckIot ==
    /\ cpc = "idle"
    /\ \E in \in IotInputs :
           /\ cin' = in
           /\ cres' = IotCheck(in)[1]
           /\ cdiag' = IotCheck(in)[2]
    /\ cmod' = "analysis.iot"
    /\ cpc' = "done"
    /\ UNCHANGED notCheck

\* packages.dpkg.installed: Module.check
CheckDpkg ==
    /\ cpc = "idle"
    /\ \E in \in DpkgInputs :
           /\ cin' = in
           /\ cres' = DpkgCheck(in)[1]
           /\ cdiag' = DpkgCheck(in)[2]
    /\ cmod' = "packages.dpkg.installed"
    /\ cpc' = "done"
    /\ UNCHANGED notCheck

\* locasploit.update.vulnerabilities: Module.check
CheckUpdate ==
    /\ cpc = "idle"
    /\ \E in \in UpdateInputs :
           /\ cin' = in
           /\ cres' = UpdateCheck(in)[1]
           /\ cdiag' = UpdateCheck(in)[2]
    /\ cmod' = "locasploit.update.vulnerabilities"
    /\ cpc' = "done"
    /\ UNCHANGED notCheck

InitCheck ==
    /\ CheckIdle
    /\ ChainIdle /\ VerIdle /\ AliasIdle /\ RunIdle /\ ScratchIdle

NextCheck ==
    \/ CheckIot
    \/ CheckDpkg
    \/ CheckUpdate

SpecCheck ==
    InitCheck /\ [][NextCheck]_vars

(***************************************************************************)
(* Claims about the check operations                                       *)
(***************************************************************************)
\* the least Confidence of a non-empty set
MinOf(S) ==
    CHOOSE x \in S : \A y \in S : x <= y

\* the branches of analysis.iot check that fail on the input the check saw
IotFailedBranches ==
    (IF cin.METHOD \notin {"local", "image", "ssh"} THEN {"method"} ELSE {})
    \cup (IF cin.METHOD = "image" /\ cin.EXTRACT \notin {"yes", "no"} THEN {"extract"} ELSE {})
    \cup (IF cin.METHOD = "ssh" /\ ~cin.sshConnection THEN {"ssh"} ELSE {})
    \cup (IF cin.METHOD = "local" /\ ~cin.targetIsDir THEN {"local"} ELSE {})
    \cup (IF cin.ACCURACY \notin Accuracies THEN {"accuracy"} ELSE {})

\* the verdicts of the preconditions and sub-module checks of the check that ran
Verdicts ==
    IF cmod = "analysis.iot"
    THEN (IF IotFailedBranches # {} THEN {CHECK_FAILURE} ELSE {})
         \cup (IF cin.METHOD = "image" THEN {cin.ibe} ELSE {})
    ELSE IF cmod = "packages.dpkg.installed"
    THEN (IF cin.systemType # "linux" THEN {CHECK_UNLIKELY} ELSE {})
         \cup (IF ~cin.canRead THEN {CHECK_FAILURE} ELSE {})
    ELSE (IF cin.BACKGROUND \notin {"yes", "no"} THEN {CHECK_FAILURE} ELSE {})
         \cup (IF ~cin.urllib THEN {CHECK_FAILURE} ELSE {})

DefaultOf(mod) ==
    IF mod = "packages.dpkg.installed" THEN CHECK_SUCCESS ELSE CHECK_PROBABLY

C10_OneDiagnosticPerFailedBranch ==
    (cpc = "done" /\ cmod = "analysis.iot") =>
        /\ cres = MinOf({CHECK_PROBABLY} \cup Verdicts)
        /\ ~SilentOf(cin.silentArg, cin.SILENT) =>
               /\ Range(cdiag) = IotFailedBranches
               /\ Len(cdiag) = Cardinality(IotFailedBranches)

(***************************************************************************)
(* analysis.iot: run, at the level of the scratch store.                   *)
(* The rows staged in db['vuln'] and the correlation over them are the     *)
(* subject of SpecRun; here the correlation's result is an input.          *)
(***************************************************************************)
\* the parts of the state run does not touch
notScratch == <<chainVars, verVars, aliasVars, runVars, checkVars>>

\* self.packathors
packathors == <<"dpkg", "opkg", "ipkg">>

\* what io.read_file returns when the file cannot be read
IO_ERROR == "IO_ERROR"

\* `found` before any assignment to it
Unbound == "unbound"

\* the parameters METHOD, ACCURACY and ALIASES the runs are called with: the
\* three methods the module knows and one it does not
RunParameters ==
    { [METHOD |-> "local", ACCURACY |-> "full", ALIASES |-> "yes"],
      [METHOD |-> "local", ACCURACY |-> "none", ALIASES |-> "no"],
      [METHOD |-> "image", ACCURACY |-> "full", ALIASES |-> "yes"],
      [METHOD |-> "image", ACCURACY |-> "none", ALIASES |-> "no"],
      [METHOD |-> "ssh", ACCURACY |-> "build", ALIASES |-> "no"],
      [METHOD |-> "ftp", ACCURACY |-> "full", ALIASES |-> "yes"] }

\* io.find + get_system_type_from_active_root: the linux directory trees below
\* the extracted image, as paths below tmpdir
ImageTrees == { <<>>, <<"/squashfs-root">>, <<"/squashfs-root", "/jffs2-root">> }

\* the alias groups parsed from package_aliases.csv
AliasFile == << <<"kernel", "linux_kernel">> >>

\* what step 3 may gather from a filesystem: nothing at all, or a kernel version
\* (linux.enumeration.kernel) together with releases, users or cron entries
SystemFacts ==
    { [kernels |-> <<>>, info |-> FALSE],
      [kernels |-> << <<"3", ".", "2">> >>, info |-> TRUE] }

\* the outcomes of the run of scanner p: IO_ERROR when its package database
\* cannot be read, else the observations it collects
ScannerRuns(p) ==
    IF p = "dpkg" THEN {IO_ERROR, << <<"openssl", Null, <<"1", ".", "1">>>> >>}
    ELSE IF p = "opkg" THEN {IO_ERROR, <<>>, << <<"kernel", Null, <<"4", ".", "4">>>> >>}
    ELSE {IO_ERROR, << <<"busybox", Null, <<"1">>>> >>}

\* the result of the correlation and of the exploit lookup for a filesystem:
\* no CVE, a CVE without exploits, or a CVE with an exploit
Findings(packages) ==
    IF packages = <<>> THEN {"none"} ELSE {"none", "cve", "exploit"}

\* run, step 0 and the end of step 2: the entries of tb[tag+'_general']
General(m, al) ==
    << <<"Date", "today">> >>
    \o (IF m = "ssh" THEN << <<"Target", "target">> >>
        ELSE IF m = "image"
             THEN << <<"Target", "filename">>, <<"Location", "path">>,
                     <<"MD5", "md5">>, <<"SHA1", "sha1">>, <<"SHA256", "sha256">> >>
             ELSE <<>>)
    \o << <<"Aliases enabled", IF al THEN "YES" ELSE "NO">> >>

\* run, step 0: the store after the preparation (and the appends to general)
Prepared(store, acc, m, al) ==
    [store EXCEPT !.accuracy = acc,
                  !.general = General(m, al),
                  !.filesystems = <<>>,
                  !.fake_packages = <<>>,
                  !.alias_packages = <<>>]

\* run, steps 1 and 2: the value of `found` when the loop over it begins
FoundFor(m, trees) ==
    IF m = "image" THEN trees
    ELSE IF m \in {"local", "ssh"} THEN <<"">>
    ELSE Unbound

\* run, steps 0 to 2: from the entry to `for f in found`
ScratchRun(par, trees) ==
    /\ spc \in {"idle", "returned", "fault"}
    /\ runs < MaxRuns
    /\ runs' = runs + 1
    /\ method' = par.METHOD
    /\ aliases' = Positive(par.ALIASES)
    /\ tb' = Prepared(tb, par.ACCURACY, par.METHOD, Positive(par.ALIASES))
    /\ tb_alone' = Prepared(EmptyStore, par.ACCURACY, par.METHOD, Positive(par.ALIASES))
    /\ exploits' = <<>>
    /\ found' = FoundFor(par.METHOD, trees)
    /\ fscount' = -1
    /\ spc' = IF FoundFor(par.METHOD, trees) = Unbound THEN "fault" ELSE "loop"
    /\ kernels' = <<>>
    /\ sysinfo' = FALSE
    /\ pms' = <<>>
    /\ scanned' = <<>>
    /\ scanner' = 1
    /\ last_scan' = Null
    /\ UNCHANGED notScratch

\* run, step 3 and the head of step 4: the next filesystem; system information is
\* gathered, the temporary tag and the batch are emptied
FsBegin(facts) ==
    /\ spc = "loop"
    /\ fscount + 1 < Len(found)
    /\ fscount' = fscount + 1
    /\ kernels' = facts.kernels
    /\ sysinfo' = facts.info
    /\ pms' = <<>>
    /\ tb' = [tb EXCEPT !.tmp_packages = <<>>]
    /\ tb_alone' = [tb_alone EXCEPT !.tmp_packages = <<>>]
    /\ scanned' = <<>>
    /\ scanner' = 1
    /\ last_scan' = Null
    /\ spc' = "scan"
    /\ UNCHANGED <<runs, method, aliases, found, exploits>>
    /\ UNCHANGED notScratch

\* packages.<p>.installed run: tb[tag] = results, or nothing on IO_ERROR
ScannerWrite(store, r) ==
    IF r = IO_ERROR THEN store ELSE [store EXCEPT !.tmp_packages = r]

\* [ps[2] for ps in [x for x in t if x[0] == 'kernel']]
KernelVersions(t) ==
    LET ks == SelectSeq(t, LAMBDA x : x[1] = "kernel")
    IN  [i \in DOMAIN ks |-> ks[i][3]]

\* the pass of the loop in which check returned FAILURE (~ok) or not, and in
\* which run, if called, had outcome r
ScanWith(ok, r) ==
    /\ LET p == packathors[scanner]
           t == ScannerWrite(tb, r).tmp_packages
           counted == ok /\ Len(t) # 0
           fake == counted /\ p \notin {"opkg", "ipkg"} /\ Len(kernels) > 0
       IN  /\ tb' = IF ~ok THEN tb
                    ELSE IF fake
                         THEN [ScannerWrite(tb, r) EXCEPT
                                  !.fake_packages = Append(@, "kernel")]
                         ELSE ScannerWrite(tb, r)
           /\ tb_alone' = IF ~ok THEN tb_alone
                          ELSE IF fake
                               THEN [ScannerWrite(tb_alone, r) EXCEPT
                                        !.fake_packages = Append(@, "kernel")]
                               ELSE ScannerWrite(tb_alone, r)
           /\ pms' = IF counted THEN Append(pms, p) ELSE pms
           /\ scanned' = IF ~counted THEN scanned
                         ELSE IF fake
                              THEN Append(scanned \o t, <<"kernel", Null, kernels[1]>>)
                              ELSE scanned \o t
           /\ kernels' = IF counted /\ p \in {"opkg", "ipkg"} /\ Len(kernels) = 0
                         THEN kernels \o KernelVersions(t)
                         ELSE kernels
           /\ last_scan' = IF ~ok THEN "skipped"
                           ELSE IF r = IO_ERROR THEN "fault" ELSE "ran"
    /\ scanner' = scanner + 1
    /\ spc' = IF scanner = Len(packathors) THEN "enumerated" ELSE "scan"
    /\ UNCHANGED <<runs, method, aliases, found, fscount, sysinfo, exploits>>
    /\ UNCHANGED notScratch

\* run, step 4: one pass of the loop over packathors: pxi.check(), and unless it
\* is FAILURE, pxi.run() and the collection of what the temporary tag holds
Scan(ok) ==
    /\ spc = "scan"
    /\ \E r \in ScannerRuns(packathors[scanner]) : ScanWith(ok, r)

\* data['name'] of filesystem f
FsName(m, f) ==
    IF m = "image" THEN f
    ELSE IF m \in {"ssh", "local"} THEN (IF f = "" THEN "/" ELSE f)
    ELSE "UNDEFINED DUE TO WEIRD METHOD"

\* exploits[cve] = exlist
DictSet(d, key, val) ==
    IF \E i \in DOMAIN d : d[i][1] = key
    THEN [i \in DOMAIN d |-> IF d[i][1] = key THEN <<key, val>> ELSE d[i]]
    ELSE Append(d, <<key, val>>)

\* the store after the end of step 4 and step 6 for one filesystem
Analysed(store, names, data, empty) ==
    [store EXCEPT !.alias_packages = @ \o names,
                  !.tmp_packages = Absent,
                  !.filesystems = IF empty THEN @ ELSE Append(@, data)]

\* run, the end of step 4 and steps 5 and 6 for one filesystem
FsAnalyse ==
    /\ spc = "enumerated"
    /\ LET ks == IF Len(kernels) = 0 THEN <<"UNKNOWN">> ELSE kernels
           ap == IF aliases THEN GetAliasPackages(scanned, AliasFile)
                 ELSE <<<<>>, <<>>>>
           packages == scanned \o ap[2]
       IN  \E finding \in Findings(packages) :
               LET data == [name     |-> FsName(method, found[fscount + 1]),
                            system   |-> <<ks, sysinfo, pms>>,
                            packages |-> packages,
                            cves     |-> IF finding = "none" THEN <<>>
                                         ELSE <<"CVE-1">>]
                   empty == /\ finding = "none"
                            /\ packages = <<>>
                            /\ ~sysinfo
                            /\ "UNKNOWN" \in Range(ks)
               IN  /\ tb' = Analysed(tb, ap[1], data, empty)
                   /\ tb_alone' = Analysed(tb_alone, ap[1], data, empty)
                   /\ exploits' = IF finding = "exploit"
                                  THEN DictSet(exploits, "CVE-1", <<"EDB-1">>)
                                  ELSE exploits
                   /\ kernels' = ks
    /\ spc' = "loop"
    /\ UNCHANGED <<runs, method, aliases, found, fscount, sysinfo, pms, scanned,
                   scanner, last_scan>>
    /\ UNCHANGED notScratch

\* run, after the loop: tb[tag+'_exploits'] = exploits when there are any
Finished(store) ==
    IF Len(exploits) > 0 THEN [store EXCEPT !.exploits = exploits] ELSE store

\* run: the loop over `found` is exhausted; return None
RunFinish ==
    /\ spc = "loop"
    /\ fscount + 1 >= Len(found)
    /\ tb' = Finished(tb)
    /\ tb_alone' = Finished(tb_alone)
    /\ spc' = "returned"
    /\ UNCHANGED <<runs, method, aliases, found, fscount, kernels, sysinfo, pms,
                   scanned, scanner, last_scan, exploits>>
    /\ UNCHANGED notScratch

InitScratch ==
    /\ ChainIdle /\ VerIdle /\ AliasIdle /\ RunIdle /\ CheckIdle
    /\ ScratchIdle

NextScratch ==
    \/ \E par \in RunParameters, trees \in ImageTrees : ScratchRun(par, trees)
    \/ \E facts \in SystemFacts : FsBegin(facts)
    \/ \E ok \in BOOLEAN : Scan(ok)
    \/ FsAnalyse
    \/ RunFinish

SpecScratch ==
    InitScratch /\ [][NextScratch]_vars

(***************************************************************************)
(* Claims about run and the scratch store                                  *)
(***************************************************************************)
\* the declared outputs of run under its TAG
Outputs == {"general", "filesystems", "fake_packages", "alias_packages", "exploits"}

\* C11: after any sequence of runs under the same TAG every output entry
\* (general, filesystems, fake_packages, alias_packages, exploits) holds what the
\* most recent run alone wrote: nothing of an earlier run survives in it.
C11_OutputsReflectOnlyLastRun ==
    spc = "returned" => \A o \in Outputs : tb[o] = tb_alone[o]

\* C12: run invoked although its check returns FAILURE (a METHOD outside
\* local/image/ssh) ends without an unhandled fault.
C12_RunEndsWithoutFault ==
    spc # "fault"

\* C13: a scanner whose run hits an I/O fault is treated as having produced an
\* empty result: it is not recorded among the package managers and it adds no
\* observation to the batch.
C13_FaultingScannerCountsAsEmpty ==
    [][(spc = "scan" /\ scanner' = scanner + 1 /\ last_scan' = "fault")
          => (pms' = pms /\ scanned' = scanned)]_vars

====
